---- MODULE Spec2Model ----
(***************************************************************************)
(* Cube_render: main() creates an SFML window, constructs                  *)
(* Renderer::GL_State (shaders, program, vertex buffers, two textures) and *)
(* then runs the event/render loop.  The model follows main.cpp,           *)
(* renderer.cpp and renderer.hpp statement by statement; the OpenGL        *)
(* context is the object tables (shaders, programs, textures, buffers,     *)
(* vertex arrays) plus the ordered log of the calls issued to it.          *)
(***************************************************************************)
EXTENDS Integers, Sequences, FiniteSets, TLC

\* ---------------------------------------------------------------- bounds
\* Iterations of main's while loop that are explored.
MaxFrames == 2
\* Events returned by pollEvent in one iteration of the loop.
MaxEvents == 1
\* Largest elapsed-seconds reading of the clock.
MaxTime == 1

\* ------------------------------------------------------ program constants
WINDOW_WIDTH == 1133
WINDOW_HEIGHT == 755
INDICES_COUNT == 6
DEFAULT_TEXTURE_UNIT == 0
\* number of floats per vertex, and number of floats in vertices_
STRIDE == 5
POSITION_LOCATION == 0
TEXTURE_LOCATION == 3
POSITION_SIZE == 3
TEXTURE_SIZE == 2
\* sizeof(float)
SizeofFloat == 4
VerticesSize == 180
\* number of entries of indices_ (the initializer list is empty)
IndicesSize == 0

VERTEX_SHADER_PATH == "../../../shaders/shader.vs"
FRAG_SHADER_PATH == "../../../shaders/shader.fs"
SHELF_TEXTURE_PATH == "../../../resources/sky.jpg"
DUCKY_TEXTURE_PATH == "../../../resources/rubber-ducky.png"

NULL == 0
\* an empty std::unique_ptr; a pointee is a record with null |-> FALSE
NullPtr == [null |-> TRUE]

\* ------------------------------------------------------------ input sets
\* Diagnostic logs the driver may return (copied into infoLog[512]).
InfoLogs == {"0:1(1): error: syntax error", "error: interface mismatch"}
\* stbi_load with req_comp 0 reports the channel count of the file: 1..4.
Channels == 1..4
\* Events pollEvent can return.
Events == {"Closed", "KeyEscape", "KeyOther", "Resized"}

VARIABLES
    pc,             \* position of main()
    window,         \* main's window: [created, open]
    gl,             \* main's std::unique_ptr<GL_State>: "null" or "GL_State"
    exc,            \* exception in flight / caught: [type, what]
    stderr,         \* what main's handler wrote to std::cerr
    exitStatus,     \* how the process ended
    vertexShader,   \* GL_State(): local VertexShader (its shaderID_), NULL before
    fragShader,     \* GL_State(): local FragmentShader (its shaderID_)
    shaderProgram_, \* GL_State member: NullPtr or [shaderProgram_]
    myBuffer_,      \* GL_State member: NullPtr or [VAO_, VBO_, EBO_]
    shelfTexture_,  \* GL_State member: NullPtr or [texID_, img_, imgNumberOfChannels_]
    duckyTexture_,  \* GL_State member
    glLog,          \* GL calls issued outside Draw, in order
    draws,          \* one entry per Draw call: [time, calls]
    shaders,        \* GL shader objects: id -> [type, compileStatus, infoLog, deleted]
    programs,       \* GL program objects: id -> [attached, linkStatus, infoLog, deleted]
    textures,       \* GL texture objects: id -> [uploads, mipmap, deleted]
    buffers,        \* GL buffer objects: id -> [target, size, deleted]
    vaos,           \* GL vertex array objects: id -> [attribs, elementBuffer, deleted]
    stbiFlip,       \* stb_image's process-wide flip-vertically-on-load flag
    stbiLog,        \* one entry per stbi_load: [path, img, channels, flipped]
    heap,           \* pixel buffers returned by stbi_load: address -> times freed
    model,          \* Renderer::CoordinateSystems::model (mutable global)
    view,           \* Renderer::CoordinateSystems::view
    projection,     \* Renderer::CoordinateSystems::projection
    frames,         \* completed iterations of the main loop
    polled,         \* events polled in the current iteration
    clock           \* last elapsed-seconds reading

vars == <<pc, window, gl, exc, stderr, exitStatus, vertexShader, fragShader,
          shaderProgram_, myBuffer_, shelfTexture_, duckyTexture_, glLog,
          draws, shaders, programs, textures, buffers, vaos, stbiFlip,
          stbiLog, heap, model, view, projection, frames, polled, clock>>

mainVars == <<window, gl, stderr, exitStatus>>
memberVars == <<shaderProgram_, myBuffer_, shelfTexture_, duckyTexture_>>
shaderLocals == <<vertexShader, fragShader>>
objectVars == <<shaders, programs, textures, buffers, vaos>>
stbiVars == <<stbiFlip, stbiLog, heap>>
matrixVars == <<model, view, projection>>
loopVars == <<frames, polled, clock>>

\* ------------------------------------------------------------- helpers
Call(name, args) == [call |-> name, args |-> args]

NoException == [type |-> "none", what |-> <<>>]
Exception(type, what) == [type |-> type, what |-> what]

\* Shader and program names come from one namespace of the driver.
NewShaderOrProgramName == Cardinality(DOMAIN shaders) + Cardinality(DOMAIN programs) + 1
\* glGenTextures left out: texID_ keeps the value 0
TextureNameNotGenerated == NULL
NewTextureName == Cardinality(DOMAIN textures) + 1
NewBufferName == Cardinality(DOMAIN buffers) + 1
NewVertexArrayName == Cardinality(DOMAIN vaos) + 1
NewPixelBuffer == Cardinality(DOMAIN heap) + 1

Put(f, k, v) == [x \in (DOMAIN f) \cup {k} |-> IF x = k THEN v ELSE f[x]]

\* ------------------------------------------- CoordinateSystems (globals)
\* glm::rotate(mat4(1), radians(-55), vec3(1,0,0))
InitialModel == [op |-> "rotate", angleDeg |-> -55, axis |-> <<1, 0, 0>>]
\* glm::translate(mat4(1), vec3(0,0,-3))
InitialView == [op |-> "translate", by |-> <<0, 0, -3>>]
\* WINDOW_WIDTH / WINDOW_HEIGHT divides two GLsizei (int) values; the cast
\* to float is applied to the quotient.
Aspect == WINDOW_WIDTH \div WINDOW_HEIGHT
\* glm::perspective(radians(45), aspect, 0.1, 1000); near is kept in tenths
InitialProjection ==
    [op |-> "perspective", fovyDeg |-> 45, aspect |-> Aspect,
     nearTenths |-> 1, far |-> 1000]

Init ==
    /\ pc = "CreateWindow"
    /\ window = [created |-> FALSE, open |-> FALSE]
    /\ gl = "null"
    /\ exc = NoException
    /\ stderr = <<>>
    /\ exitStatus = "running"
    /\ vertexShader = NULL
    /\ fragShader = NULL
    /\ shaderProgram_ = NullPtr
    /\ myBuffer_ = NullPtr
    /\ shelfTexture_ = NullPtr
    /\ duckyTexture_ = NullPtr
    /\ glLog = <<>>
    /\ draws = <<>>
    /\ shaders = <<>>
    /\ programs = <<>>
    /\ textures = <<>>
    /\ buffers = <<>>
    /\ vaos = <<>>
    /\ stbiFlip = FALSE
    /\ stbiLog = <<>>
    /\ heap = <<>>
    /\ model = InitialModel
    /\ view = InitialView
    /\ projection = InitialProjection
    /\ frames = 0
    /\ polled = 0
    /\ clock = 0

\* ------------------------------------------------------------ main: window
\* CreateWindow(window): both operands of the non-short-circuit | are
\* evaluated; failure throws std::runtime_error.
CreateWindow ==
    /\ pc = "CreateWindow"
    /\ \E gladLoaded \in BOOLEAN, opened \in BOOLEAN :
        /\ window' = [created |-> TRUE, open |-> opened]
        /\ IF (~gladLoaded) \/ (~opened)
           THEN /\ exc' = Exception("runtime_error",
                            <<"ERROR::Failed to initialize window context.">>)
                /\ pc' = "thrown"
           ELSE /\ exc' = exc
                /\ pc' = "GL_State"
    /\ UNCHANGED <<gl, stderr, exitStatus, shaderLocals, memberVars, glLog, draws,
                   objectVars, stbiVars, matrixVars, loopVars>>

\* ------------------------------------------------- GL_State::GL_State()
\* The fixed-function part of the constructor, lines 266-287.
ContextSetupCalls ==
    << Call("glViewport", <<0, 0, WINDOW_WIDTH, WINDOW_HEIGHT>>),
       Call("glEnable", <<"GL_DEBUG_OUTPUT">>),
       Call("glDebugMessageCallback", <<"MessageCallback">>),
       Call("glEnable", <<"GL_CULL_FACE">>),
       Call("glCullFace", <<"GL_BACK">>),
       Call("glFrontFace", <<"GL_CW">>),
       Call("glClearColor", <<3, 3, 3, 5>>),      \* tenths: 0.3 0.3 0.3 0.5
       Call("glClear", <<"GL_COLOR_BUFFER_BIT">>) >>

GLStateSetup ==
    /\ pc = "GL_State"
    /\ glLog' = glLog \o ContextSetupCalls
    /\ pc' = "VertexShader"
    /\ UNCHANGED <<mainVars, exc, shaderLocals, memberVars, draws, objectVars,
                   stbiVars, matrixVars, loopVars>>

\* ------------------------------------------------------- Shader classes
\* Shader::checkShaderCompilation: the exception thrown, NoException if none.
checkShaderCompilation(shaderType, success, infoLog) ==
    IF ~success
    THEN Exception("runtime_error",
             <<"ERROR::SHADER::", shaderType, "::COMPILATION_FAILED\n ", infoLog>>)
    ELSE NoException

\* Shader::Shader: the exception thrown when the source cannot be read.
ShaderSourceError(sourcePath) ==
    Exception("domain_error",
        <<"ERROR::CANNOT OPEN::", sourcePath, " ", "ios_base::failure">>)

VertexTag == "VERTEX"
FragmentTagCopied == "VERTEX"
FragmentTag == "FRAGMENT"

\* The calls of generateID, compileShader and checkShaderCompilation.
ShaderCalls(shaderType, id, success) ==
    << Call("glCreateShader", <<shaderType, id>>),
       Call("glShaderSource", <<id>>),
       Call("glCompileShader", <<id>>),
       Call("glGetShaderiv", <<id, "GL_COMPILE_STATUS">>) >>
    \o (IF success THEN <<>> ELSE <<Call("glGetShaderInfoLog", <<id>>)>>)

\* VertexShader::VertexShader / FragmentShader::FragmentShader: the base
\* constructor reads the file, then the body creates, compiles and checks.
\* The result is the exception thrown, the new shader table and the calls.
ShaderConstructor(sourcePath, shaderType, tag, readable, success, log) ==
    LET id == NewShaderOrProgramName
        obj == [type |-> shaderType, compileStatus |-> success,
                infoLog |-> IF success THEN "" ELSE log, deleted |-> FALSE]
    IN  IF ~readable
        THEN [exc |-> ShaderSourceError(sourcePath), id |-> NULL,
              shaders |-> shaders, calls |-> <<>>]
        ELSE [exc |-> checkShaderCompilation(tag, success, log), id |-> id,
              shaders |-> Put(shaders, id, obj),
              calls |-> ShaderCalls(shaderType, id, success)]

VertexShaderCtor ==
    /\ pc = "VertexShader"
    /\ \E readable \in BOOLEAN, success \in BOOLEAN, log \in InfoLogs :
        LET r == ShaderConstructor(VERTEX_SHADER_PATH, "GL_VERTEX_SHADER",
                                   VertexTag, readable, success, log)
        IN  /\ shaders' = r.shaders
            /\ glLog' = glLog \o r.calls
            /\ exc' = r.exc
            /\ IF r.exc.type = "none"
               THEN vertexShader' = r.id /\ pc' = "FragmentShader"
               ELSE vertexShader' = vertexShader /\ pc' = "thrown"
    /\ UNCHANGED <<mainVars, fragShader, memberVars, draws, programs, textures,
                   buffers, vaos, stbiVars, matrixVars, loopVars>>

FragmentShaderCtor ==
    /\ pc = "FragmentShader"
    /\ \E readable \in BOOLEAN, success \in BOOLEAN, log \in InfoLogs :
        LET r == ShaderConstructor(FRAG_SHADER_PATH, "GL_FRAGMENT_SHADER",
                                   FragmentTag, readable, success, log)
        IN  /\ shaders' = r.shaders
            /\ glLog' = glLog \o r.calls
            /\ exc' = r.exc
            /\ IF r.exc.type = "none"
               THEN fragShader' = r.id /\ pc' = "ShaderProgram"
               ELSE fragShader' = fragShader /\ pc' = "thrown"
    /\ UNCHANGED <<mainVars, vertexShader, memberVars, draws, programs, textures,
                   buffers, vaos, stbiVars, matrixVars, loopVars>>

\* ---------------------------------------------------------- ShaderProgram
\* The shader objects glDeleteShader is called on, given the link status:
\* the throw at line 250 leaves the constructor before lines 255 and 258.
ShadersDeletedNever(vertexShaderID, fragShaderID, success) == {}
ShadersDeletedByLink(vertexShaderID, fragShaderID, success) ==
    IF success THEN {vertexShaderID, fragShaderID} ELSE {}

LinkError(infoLog) ==
    Exception("runtime_error",
        <<"ERROR::SHADER::PROGRAM::LINKING_FAILED\n", infoLog>>)

ShaderProgramCalls(id, vertexShaderID, fragShaderID, success) ==
    << Call("glCreateProgram", <<id>>),
       Call("glAttachShader", <<id, vertexShaderID>>),
       Call("glAttachShader", <<id, fragShaderID>>),
       Call("glLinkProgram", <<id>>),
       Call("glGetProgramiv", <<id, "GL_LINK_STATUS">>) >>
    \o (IF success
        THEN << Call("glDeleteShader", <<vertexShaderID>>),
                Call("glDeleteShader", <<fragShaderID>>) >>
        ELSE << Call("glGetProgramInfoLog", <<id>>) >>)

ShaderProgramCtor ==
    /\ pc = "ShaderProgram"
    /\ \E success \in BOOLEAN, log \in InfoLogs :
        LET id == NewShaderOrProgramName
            gone == ShadersDeletedByLink(vertexShader, fragShader, success)
        IN  /\ programs' = Put(programs, id,
                    [attached |-> {vertexShader, fragShader},
                     linkStatus |-> success,
                     infoLog |-> IF success THEN "" ELSE log,
                     deleted |-> FALSE])
            /\ shaders' = [s \in DOMAIN shaders |->
                    IF s \in gone THEN [shaders[s] EXCEPT !.deleted = TRUE]
                    ELSE shaders[s]]
            /\ glLog' = glLog \o
                    ShaderProgramCalls(id, vertexShader, fragShader, success)
            /\ IF success
               THEN /\ shaderProgram_' = [null |-> FALSE, shaderProgram_ |-> id]
                    /\ exc' = exc
                    /\ pc' = "BufferSetup"
               ELSE /\ shaderProgram_' = shaderProgram_
                    /\ exc' = LinkError(log)
                    /\ pc' = "thrown"
    /\ UNCHANGED <<mainVars, shaderLocals, myBuffer_, shelfTexture_,
                   duckyTexture_, draws, textures, buffers, vaos, stbiVars,
                   matrixVars, loopVars>>

\* ------------------------------------------------------------ BufferSetup
\* The vertex attributes the constructor enables, lines 375-377.
EnabledAttributes == <<"POSITION", "COLOR", "TEXTURE">>

\* Layout constants of the colour attribute.  renderer.cpp reads
\* Renderer::Vertex::Vector::COLOUR_LOCATION and COLOUR_SIZE, which no file
\* of the repository defines: any float offset inside a vertex and any
\* component count OpenGL accepts may stand for them.
ColourLocations == 0..(STRIDE - 1)
ColourSizes == 1..4

\* BufferSetup::enableVertexAttribute, the switch of lines 389-405.
AttributeLocation(type, colourLocation) ==
    CASE type = "POSITION" -> POSITION_LOCATION
      [] type = "COLOR" -> colourLocation
      [] type = "TEXTURE" -> TEXTURE_LOCATION

AttributeSize(type, colourSize) ==
    CASE type = "POSITION" -> POSITION_SIZE
      [] type = "COLOR" -> colourSize
      [] type = "TEXTURE" -> TEXTURE_SIZE

\* The arguments of glVertexAttribPointer, lines 408-411: component count,
\* byte stride and byte offset of the attribute.
AttributePointer(type, colourLocation, colourSize) ==
    [size |-> AttributeSize(type, colourSize),
     stride |-> STRIDE * SizeofFloat,
     offset |-> AttributeLocation(type, colourLocation) * SizeofFloat,
     enabled |-> TRUE]

\* The calls of one enableVertexAttribute(type).  The attribute index is
\* static_cast<unsigned int>(type); the three enumerators are case labels of
\* one switch, hence distinct, and the type names the index here.
enableVertexAttribute(type, colourLocation, colourSize) ==
    << Call("glVertexAttribPointer",
            <<type, AttributeSize(type, colourSize), "GL_FLOAT", "GL_FALSE",
              STRIDE * SizeofFloat,
              AttributeLocation(type, colourLocation) * SizeofFloat>>),
       Call("glEnableVertexAttribArray", <<type>>) >>

\* Line 362: if (!indices_.empty())
HasIndicesAlways(size) == TRUE
HasIndices(size) == size # 0

BufferSetupCtor ==
    /\ pc = "BufferSetup"
    /\ \E colourLocation \in ColourLocations, colourSize \in ColourSizes :
       LET vao == NewVertexArrayName
           vbo == NewBufferName
           hasIndices == HasIndices(IndicesSize)
           ebo == IF hasIndices THEN vbo + 1 ELSE NULL
           vboObj == [target |-> "GL_ARRAY_BUFFER", size |-> VerticesSize,
                      deleted |-> FALSE]
           eboObj == [target |-> "GL_ELEMENT_ARRAY_BUFFER", size |-> IndicesSize,
                      deleted |-> FALSE]
           types == {EnabledAttributes[i] : i \in DOMAIN EnabledAttributes}
       IN  /\ vaos' = Put(vaos, vao,
                    [attribs |-> [t \in types |->
                            AttributePointer(t, colourLocation, colourSize)],
                     elementBuffer |-> ebo, deleted |-> FALSE])
           /\ buffers' = IF hasIndices
                         THEN Put(Put(buffers, vbo, vboObj), ebo, eboObj)
                         ELSE Put(buffers, vbo, vboObj)
           /\ glLog' = glLog
                \o << Call("glGenVertexArrays", <<vao>>),
                      Call("glBindVertexArray", <<vao>>),
                      Call("glGenBuffers", <<vbo>>),
                      Call("glBindBuffer", <<"GL_ARRAY_BUFFER", vbo>>),
                      Call("glBufferData", <<"GL_ARRAY_BUFFER", VerticesSize>>) >>
                \o (IF hasIndices
                    THEN << Call("glGenBuffers", <<ebo>>),
                            Call("glBindBuffer", <<"GL_ELEMENT_ARRAY_BUFFER", ebo>>),
                            Call("glBufferData",
                                 <<"GL_ELEMENT_ARRAY_BUFFER", IndicesSize>>) >>
                    ELSE <<>>)
                \o enableVertexAttribute(EnabledAttributes[1],
                                         colourLocation, colourSize)
                \o enableVertexAttribute(EnabledAttributes[2],
                                         colourLocation, colourSize)
                \o enableVertexAttribute(EnabledAttributes[3],
                                         colourLocation, colourSize)
           \* EBO_ is left uninitialised when indices_ is empty; nothing reads it
           /\ myBuffer_' = [null |-> FALSE, VAO_ |-> vao, VBO_ |-> vbo,
                            hasEBO |-> hasIndices, EBO_ |-> ebo]
    /\ pc' = "ShelfTexture"
    /\ UNCHANGED <<mainVars, exc, shaderLocals, shaderProgram_, shelfTexture_,
                   duckyTexture_, draws, shaders, programs, textures, stbiVars,
                   matrixVars, loopVars>>

\* ------------------------------------------------------- Image and Texture
\* Image::Image, line 72: the test that makes the constructor throw.
ImageLoadIgnored(img) == FALSE
ImageLoadFailed(img) == img = NULL

ImageError(imagePath) ==
    Exception("domain_error", <<"ERROR::CANNOT LOAD IMAGE ", imagePath>>)

\* Texture::Texture, lines 103-112: the pixel format passed to glTexImage2D
\* for a channel count; "none" when neither branch is taken.
SourceFormatAlwaysRGB(channels) ==
    IF channels \in {3, 4} THEN "GL_RGB" ELSE "none"
SourceFormat(channels) ==
    IF channels = 3 THEN "GL_RGB"
    ELSE IF channels = 4 THEN "GL_RGBA"
    ELSE "none"

\* The glTexImage2D calls of the constructor: [internalFormat, format, pixels].
TextureUploads(channels, img) ==
    IF SourceFormat(channels) = "none" THEN <<>>
    ELSE << [internalFormat |-> "GL_RGB", format |-> SourceFormat(channels),
             pixels |-> img] >>

TextureCalls(id, channels, img) ==
    << Call("glGenTextures", <<id>>),
       Call("glBindTexture", <<"GL_TEXTURE_2D", id>>),
       Call("glTexParameteri", <<"GL_TEXTURE_WRAP_S", "GL_REPEAT">>),
       Call("glTexParameteri", <<"GL_TEXTURE_WRAP_T", "GL_REPEAT">>),
       Call("glTexParameteri",
            <<"GL_TEXTURE_MIN_FILTER", "GL_NEAREST_MIPMAP_NEAREST">>),
       Call("glTexParameteri", <<"GL_TEXTURE_MAG_FILTER", "GL_NEAREST">>) >>
    \o [i \in DOMAIN TextureUploads(channels, img) |->
            Call("glTexImage2D",
                 <<"GL_RGB", TextureUploads(channels, img)[i].format, img>>)]
    \o << Call("glGenerateMipmap", <<"GL_TEXTURE_2D">>) >>

\* Texture::Texture(imagePath): the Image base constructor (stbi_load, then
\* stbi_set_flip_vertically_on_load(true), then the NULL test), then the
\* body.  decoded and channels are what stbi_load returns; on failure
\* stbi_load leaves imgNumberOfChannels_ unwritten, so any value stands.
TextureConstructor(imagePath, decoded, channels) ==
    LET img == IF decoded THEN NewPixelBuffer ELSE NULL
        id == NewTextureName
        load == [path |-> imagePath, img |-> img, channels |-> channels,
                 flipped |-> stbiFlip]
    IN  IF ImageLoadFailed(img)
        THEN [exc |-> ImageError(imagePath), object |-> NullPtr,
              textures |-> textures, calls |-> <<>>, load |-> load, img |-> img]
        ELSE [exc |-> NoException,
              object |-> [null |-> FALSE, texID_ |-> id, img_ |-> img,
                          imgNumberOfChannels_ |-> channels],
              textures |-> Put(textures, id,
                    [uploads |-> TextureUploads(channels, img),
                     mipmap |-> TRUE, deleted |-> FALSE]),
              calls |-> TextureCalls(id, channels, img),
              load |-> load, img |-> img]

ShelfTextureCtor ==
    /\ pc = "ShelfTexture"
    /\ \E decoded \in BOOLEAN, channels \in Channels :
        LET r == TextureConstructor(SHELF_TEXTURE_PATH, decoded, channels)
        IN  /\ stbiLog' = Append(stbiLog, r.load)
            /\ stbiFlip' = TRUE
            /\ heap' = IF r.img = NULL THEN heap ELSE Put(heap, r.img, 0)
            /\ textures' = r.textures
            /\ glLog' = glLog \o r.calls
            /\ shelfTexture_' = r.object
            /\ exc' = r.exc
            /\ pc' = IF r.exc.type = "none" THEN "DuckyTexture" ELSE "thrown"
    /\ UNCHANGED <<mainVars, shaderLocals, shaderProgram_, myBuffer_,
                   duckyTexture_, draws, shaders, programs, buffers, vaos,
                   matrixVars, loopVars>>

\* The last statement of the constructor: when it returns, make_unique
\* hands the finished GL_State to main's gl.
DuckyTextureCtor ==
    /\ pc = "DuckyTexture"
    /\ \E decoded \in BOOLEAN, channels \in Channels :
        LET r == TextureConstructor(DUCKY_TEXTURE_PATH, decoded, channels)
        IN  /\ stbiLog' = Append(stbiLog, r.load)
            /\ stbiFlip' = TRUE
            /\ heap' = IF r.img = NULL THEN heap ELSE Put(heap, r.img, 0)
            /\ textures' = r.textures
            /\ glLog' = glLog \o r.calls
            /\ duckyTexture_' = r.object
            /\ exc' = r.exc
            /\ IF r.exc.type = "none"
               THEN gl' = "GL_State" /\ pc' = "loop"
               ELSE gl' = gl /\ pc' = "thrown"
    /\ UNCHANGED <<window, stderr, exitStatus, shaderLocals, shaderProgram_,
                   myBuffer_, shelfTexture_, draws, shaders, programs, buffers,
                   vaos, matrixVars, loopVars>>

\* ------------------------------------------------- destructors, unwinding
\* Image::~Image: stbi_image_free(img_); free(NULL) does nothing.
FreeImageSkipped(h, texture) == h
FreeImage(h, texture) ==
    IF texture.null THEN h
    ELSE IF texture.img_ = NULL THEN h
    ELSE [h EXCEPT ![texture.img_] = @ + 1]

\* Destroying the GL_State members in reverse order of declaration: the
\* Texture destructors run ~Image; ~BufferSetup and ~ShaderProgram are
\* defaulted and issue no GL call.
HeapAfterMembersDestroyed == FreeImage(FreeImage(heap, duckyTexture_), shelfTexture_)

\* main, lines 78-83.  HandlerExits is the exit(EXIT_FAILURE) of line 82.
HandlerFallsThrough == FALSE
HandlerExits == TRUE

\* A std::runtime_error reaches the handler of main: the stack is unwound
\* (the members of the half-built GL_State are destroyed), what() is
\* printed and the process exits.
MainCatch ==
    /\ pc = "thrown"
    /\ exc.type = "runtime_error"
    /\ heap' = HeapAfterMembersDestroyed
    /\ shaderProgram_' = NullPtr
    /\ myBuffer_' = NullPtr
    /\ shelfTexture_' = NullPtr
    /\ duckyTexture_' = NullPtr
    /\ stderr' = Append(stderr, exc.what)
    /\ IF HandlerExits
       THEN pc' = "exited" /\ exitStatus' = "EXIT_FAILURE"
       ELSE pc' = "loop" /\ exitStatus' = exitStatus
    /\ UNCHANGED <<window, gl, exc, shaderLocals, glLog, draws, objectVars,
                   stbiFlip, stbiLog, matrixVars, loopVars>>

\* Any other exception type finds no handler: std::terminate is called and
\* the process aborts.  Whether the stack is unwound first is
\* implementation-defined, so both outcomes are possible.
Terminate ==
    /\ pc = "thrown"
    /\ exc.type # "runtime_error"
    /\ \E unwound \in BOOLEAN :
        IF unwound
        THEN /\ heap' = HeapAfterMembersDestroyed
             /\ shaderProgram_' = NullPtr
             /\ myBuffer_' = NullPtr
             /\ shelfTexture_' = NullPtr
             /\ duckyTexture_' = NullPtr
        ELSE UNCHANGED <<heap, memberVars>>
    /\ pc' = "aborted"
    /\ exitStatus' = "SIGABRT"
    /\ UNCHANGED <<window, gl, exc, stderr, shaderLocals, glLog, draws,
                   objectVars, stbiFlip, stbiLog, matrixVars, loopVars>>

\* ----------------------------------------------------- GL_State::Draw
\* A member's GL name; dereferencing an empty pointer is not defined, the
\* name 0 stands for it.
ProgramID == IF shaderProgram_.null THEN NULL ELSE shaderProgram_.shaderProgram_
VAOId == IF myBuffer_.null THEN NULL ELSE myBuffer_.VAO_
TexID(texture) == IF texture.null THEN NULL ELSE texture.texID_

\* ShaderProgram::setUniform<T>
setUniform(name, value) ==
    << Call("glGetUniformLocation", <<ProgramID, name>>),
       Call(IF name \in {"texture1", "texture2"}
            THEN "glUniform1i" ELSE "glUniformMatrix4fv", <<name, value>>) >>

\* The draw command issued at the end of Draw, lines 340-343.
DrawCommand ==
    Call("glDrawElements",
         <<"GL_TRIANGLES", INDICES_COUNT, "GL_UNSIGNED_INT", 0>>)

\* Draw with glUseProgram moved behind the uniform writes.
DrawCallsLateUse ==
    << Call("glActiveTexture", <<0>>),
       Call("glBindTexture", <<"GL_TEXTURE_2D", TexID(shelfTexture_)>>),
       Call("glActiveTexture", <<1>>),
       Call("glBindTexture", <<"GL_TEXTURE_2D", TexID(duckyTexture_)>>) >>
    \o setUniform("texture1", DEFAULT_TEXTURE_UNIT)
    \o setUniform("texture2", DEFAULT_TEXTURE_UNIT + 1)
    \o setUniform("model", model)
    \o setUniform("projection", projection)
    \o setUniform("view", view)
    \o << Call("glUseProgram", <<ProgramID>>),
          Call("glBindVertexArray", <<VAOId>>), DrawCommand >>

\* Draw that generates a vertex array of its own on every frame.
DrawCallsRegenerating ==
    << Call("glUseProgram", <<ProgramID>>),
       Call("glActiveTexture", <<0>>),
       Call("glBindTexture", <<"GL_TEXTURE_2D", TexID(shelfTexture_)>>),
       Call("glActiveTexture", <<1>>),
       Call("glBindTexture", <<"GL_TEXTURE_2D", TexID(duckyTexture_)>>) >>
    \o setUniform("texture1", DEFAULT_TEXTURE_UNIT)
    \o setUniform("texture2", DEFAULT_TEXTURE_UNIT + 1)
    \o setUniform("model", model)
    \o setUniform("projection", projection)
    \o setUniform("view", view)
    \o << Call("glGenVertexArrays", <<VAOId>>),
          Call("glBindVertexArray", <<VAOId>>), DrawCommand >>

\* The calls of one Draw, lines 310-343, in order.
DrawCalls ==
    << Call("glUseProgram", <<ProgramID>>),
       Call("glActiveTexture", <<0>>),                  \* GL_TEXTURE0
       Call("glBindTexture", <<"GL_TEXTURE_2D", TexID(shelfTexture_)>>),
       Call("glActiveTexture", <<1>>),                  \* GL_TEXTURE0 + 1
       Call("glBindTexture", <<"GL_TEXTURE_2D", TexID(duckyTexture_)>>) >>
    \o setUniform("texture1", DEFAULT_TEXTURE_UNIT)
    \o setUniform("texture2", DEFAULT_TEXTURE_UNIT + 1)
    \o setUniform("model", model)
    \o setUniform("projection", projection)
    \o setUniform("view", view)
    \o << Call("glBindVertexArray", <<VAOId>>), DrawCommand >>

\* The value of the global CoordinateSystems::model after a Draw at elapsed
\* time t: Draw passes the globals by value and assigns none of them.
ModelAccumulated(m, t) == [m EXCEPT !.angleDeg = @ + 50 * t]
ModelAfterDraw(m, t) == m

\* ------------------------------------------------------------ main loop
\* while (window->isOpen()), entering the body.
LoopEnter ==
    /\ pc = "loop"
    /\ window.open
    /\ frames < MaxFrames
    /\ polled' = 0
    /\ pc' = "poll"
    /\ UNCHANGED <<mainVars, exc, shaderLocals, memberVars, glLog, draws,
                   objectVars, stbiVars, matrixVars, frames, clock>>

\* pollEvent returned an event: lines 90-100.
PollEvent ==
    /\ pc = "poll"
    /\ polled < MaxEvents
    /\ \E event \in Events :
        window' = IF event \in {"Closed", "KeyEscape"}
                  THEN [window EXCEPT !.open = FALSE]
                  ELSE window
    /\ polled' = polled + 1
    /\ UNCHANGED <<pc, gl, exc, stderr, exitStatus, shaderLocals, memberVars,
                   glLog, draws, objectVars, stbiVars, matrixVars, frames, clock>>

\* pollEvent returned no event: the inner loop ends.
PollDone ==
    /\ pc = "poll"
    /\ pc' = "render"
    /\ UNCHANGED <<mainVars, exc, shaderLocals, memberVars, glLog, draws,
                   objectVars, stbiVars, matrixVars, loopVars>>

\* Lines 103-109: glClear, Draw, display.  t is the clock's elapsed time.
RenderFrame ==
    /\ pc = "render"
    /\ \E t \in clock..MaxTime :
        /\ clock' = t
        /\ draws' = Append(draws, [time |-> t, windowOpen |-> window.open,
                                   ready |-> gl = "GL_State",
                                   calls |-> DrawCalls])
        /\ model' = ModelAfterDraw(model, t)
    /\ glLog' = glLog
            \o << Call("glClear", <<"GL_COLOR_BUFFER_BIT", "GL_DEPTH_BUFFER_BIT">>),
                  Call("display", <<>>) >>
    /\ frames' = frames + 1
    /\ pc' = "loop"
    /\ UNCHANGED <<mainVars, exc, shaderLocals, memberVars, objectVars,
                   stbiVars, view, projection, polled>>

\* The window is closed: main returns 0; gl is destroyed (GL_State's
\* defaulted destructor destroys the members), then the window.
MainReturn ==
    /\ pc = "loop"
    /\ ~window.open
    /\ heap' = HeapAfterMembersDestroyed
    /\ shaderProgram_' = NullPtr
    /\ myBuffer_' = NullPtr
    /\ shelfTexture_' = NullPtr
    /\ duckyTexture_' = NullPtr
    /\ gl' = "null"
    /\ window' = [created |-> FALSE, open |-> FALSE]
    /\ exitStatus' = "0"
    /\ pc' = "returned"
    /\ UNCHANGED <<exc, stderr, shaderLocals, glLog, draws, objectVars,
                   stbiFlip, stbiLog, matrixVars, loopVars>>

Next ==
    \/ CreateWindow
    \/ GLStateSetup
    \/ VertexShaderCtor
    \/ FragmentShaderCtor
    \/ ShaderProgramCtor
    \/ BufferSetupCtor
    \/ ShelfTextureCtor
    \/ DuckyTextureCtor
    \/ MainCatch
    \/ Terminate
    \/ LoopEnter
    \/ PollEvent
    \/ PollDone
    \/ RenderFrame
    \/ MainReturn

Spec == Init /\ [][Next]_vars

\* ======================================================= properties
\* Helpers of the properties below.
LastCall(d) == d.calls[Len(d.calls)]
NoIndexBuffer ==
    \A b \in DOMAIN buffers : buffers[b].target # "GL_ELEMENT_ARRAY_BUFFER"
VertexCount == VerticesSize \div STRIDE
\* index of the first call in glLog with this name and first argument; 0 if none
FirstCall(name, arg) ==
    LET hits == {i \in DOMAIN glLog :
                    glLog[i].call = name /\ glLog[i].args[1] = arg}
    IN  IF hits = {} THEN 0 ELSE CHOOSE i \in hits : \A j \in hits : i <= j
\* index of the first call in glLog with this name; 0 if none
FirstNamed(name) ==
    LET hits == {i \in DOMAIN glLog : glLog[i].call = name}
    IN  IF hits = {} THEN 0 ELSE CHOOSE i \in hits : \A j \in hits : i <= j
CountNamed(name) == Cardinality({i \in DOMAIN glLog : glLog[i].call = name})
\* the matrix a Draw wrote to the uniform of this name
MatrixWritten(d, name) ==
    LET k == CHOOSE k \in DOMAIN d.calls :
                d.calls[k].call = "glUniformMatrix4fv" /\ d.calls[k].args[1] = name
    IN  d.calls[k].args[2]
StageTag(shaderType) ==
    IF shaderType = "GL_VERTEX_SHADER" THEN "VERTEX" ELSE "FRAGMENT"

\* C1: with no index buffer (indices_ is empty) every Draw issues a
\* non-indexed draw of exactly 36 vertices; an indexed draw is issued only
\* when an index buffer exists.
C1_NonIndexedDrawOf36 ==
    \A i \in DOMAIN draws :
        IF NoIndexBuffer
        THEN /\ LastCall(draws[i]).call = "glDrawArrays"
             /\ LastCall(draws[i]).args[3] = VertexCount
        ELSE LastCall(draws[i]).call = "glDrawElements"

\* C2: a shader whose compilation failed makes construction fail with a
\* runtime error that carries the stage tag of that shader ("VERTEX" or
\* "FRAGMENT") and its diagnostic log; no program is created or linked
\* afterwards and no GL_State comes to exist.
C2_CompileErrorCarriesStageAndLog ==
    \A s \in DOMAIN shaders :
        ~shaders[s].compileStatus =>
            /\ exc.type = "runtime_error"
            /\ exc.what = <<"ERROR::SHADER::", StageTag(shaders[s].type),
                            "::COMPILATION_FAILED\n ", shaders[s].infoLog>>
            /\ DOMAIN programs = {}
            /\ CountNamed("glLinkProgram") = 0
            /\ gl = "null"
            /\ pc \in {"thrown", "exited"}

C2_Witness ==
    /\ pc = "exited"
    /\ \E s \in DOMAIN shaders :
        /\ shaders[s].type = "GL_FRAGMENT_SHADER"
        /\ ~shaders[s].compileStatus
        /\ stderr = << <<"ERROR::SHADER::", "FRAGMENT", "::COMPILATION_FAILED\n ",
                         shaders[s].infoLog>> >>

\* C3: when linking fails, construction fails with a link error carrying the
\* log, and both input shader objects have been deleted by then.
C3_LinkFailureReleasesShaders ==
    \A p \in DOMAIN programs :
        ~programs[p].linkStatus =>
            /\ exc.type = "runtime_error"
            /\ exc.what = <<"ERROR::SHADER::PROGRAM::LINKING_FAILED\n",
                            programs[p].infoLog>>
            /\ \A s \in programs[p].attached : shaders[s].deleted

\* C4: every construction-time failure reaches main's handler, which prints
\* the message and exits with a non-zero status; none escapes the handler
\* and the render loop never starts.
C4_EveryFailureHandledByMain ==
    (exc.type # "none" /\ pc # "thrown") =>
        /\ pc = "exited"
        /\ exitStatus = "EXIT_FAILURE"
        /\ stderr = <<exc.what>>
        /\ draws = <<>>

\* C5: an image that cannot be decoded (stbi_load returns NULL) makes image
\* loading fail with an error naming the path, and no texture is allocated,
\* bound or uploaded for it: no glTexImage2D ever receives a null buffer.
C5_FailedDecodeCreatesNoTexture ==
    /\ \A i \in DOMAIN stbiLog :
        stbiLog[i].img = NULL =>
            /\ exc.type = "domain_error"
            /\ exc.what = <<"ERROR::CANNOT LOAD IMAGE ", stbiLog[i].path>>
            /\ Cardinality(DOMAIN textures) = i - 1
            /\ CountNamed("glGenTextures") = i - 1
            /\ CountNamed("glBindTexture") = i - 1
            /\ gl = "null"
    /\ \A t \in DOMAIN textures :
        \A u \in DOMAIN textures[t].uploads : textures[t].uploads[u].pixels # NULL

C5_Witness ==
    /\ Len(stbiLog) = 2
    /\ stbiLog[1].img # NULL
    /\ stbiLog[2].img = NULL
    /\ stbiLog[2].path = DUCKY_TEXTURE_PATH
    /\ pc = "aborted"

\* C6: an image whose channel count is not 3 or 4 makes texture construction
\* fail; no texture built from such an image is held by a GL_State.
C6_UnsupportedChannelCountFails ==
    /\ (~shelfTexture_.null) => shelfTexture_.imgNumberOfChannels_ \in {3, 4}
    /\ (~duckyTexture_.null) => duckyTexture_.imgNumberOfChannels_ \in {3, 4}

\* C7: a texture built from a 3-channel image is uploaded exactly once with
\* source format RGB, one built from a 4-channel image exactly once with
\* source format RGBA, both into the RGB internal format, and the texture
\* has a valid (non-zero, allocated) handle.
TextureUploadedByChannels(texture) ==
    (~texture.null /\ texture.imgNumberOfChannels_ \in {3, 4}) =>
        /\ texture.texID_ # 0
        /\ texture.texID_ \in DOMAIN textures
        /\ textures[texture.texID_].uploads =
              << [internalFormat |-> "GL_RGB",
                  format |-> IF texture.imgNumberOfChannels_ = 3
                             THEN "GL_RGB" ELSE "GL_RGBA",
                  pixels |-> texture.img_] >>

C7_SourceFormatFollowsChannels ==
    /\ TextureUploadedByChannels(shelfTexture_)
    /\ TextureUploadedByChannels(duckyTexture_)
    /\ (gl = "GL_State" /\ \A i \in DOMAIN stbiLog : stbiLog[i].channels \in {3, 4})
            => CountNamed("glTexImage2D") = 2

C7_Witness ==
    /\ gl = "GL_State"
    /\ shelfTexture_.imgNumberOfChannels_ = 4
    /\ duckyTexture_.imgNumberOfChannels_ = 3
    /\ CountNamed("glTexImage2D") = 2

\* C8: GL_State construction sets the viewport, installs the debug hook,
\* enables depth testing, sets and applies the clear color, and then builds
\* the shaders, the program, the geometry buffers and last the textures.
C8_ConstructionOrder ==
    gl = "GL_State" =>
        /\ 0 < FirstNamed("glViewport")
        /\ FirstNamed("glViewport") < FirstNamed("glDebugMessageCallback")
        /\ FirstNamed("glDebugMessageCallback") < FirstCall("glEnable", "GL_DEPTH_TEST")
        /\ FirstCall("glEnable", "GL_DEPTH_TEST") < FirstNamed("glClearColor")
        /\ FirstNamed("glClearColor") < FirstNamed("glClear")
        /\ FirstNamed("glClear") < FirstNamed("glCreateShader")
        /\ FirstNamed("glCreateShader") < FirstNamed("glCreateProgram")
        /\ FirstNamed("glCreateProgram") < FirstNamed("glGenVertexArrays")
        /\ FirstNamed("glGenVertexArrays") < FirstNamed("glGenTextures")

\* C9: the render state is either absent or Ready.  Every Draw is issued on
\* a GL_State whose construction completed every step (all four members
\* built, no exception); once any step has failed no GL_State exists and no
\* Draw is ever issued; and while the loop runs, after any number of draws,
\* the GL_State is still there.
C9_DrawOnlyWhenReady ==
    /\ gl \in {"null", "GL_State"}
    /\ \A i \in DOMAIN draws :
        /\ draws[i].ready
        /\ draws[i].calls[1].args[1] # NULL
    /\ gl = "GL_State" =>
        /\ exc.type = "none"
        /\ ~shaderProgram_.null
        /\ ~myBuffer_.null
        /\ ~shelfTexture_.null
        /\ ~duckyTexture_.null
    /\ exc.type # "none" => (gl = "null" /\ draws = <<>>)
    /\ pc \in {"loop", "poll", "render"} => gl = "GL_State"

C9_Witness ==
    /\ Len(draws) = 2
    /\ pc = "loop"
    /\ gl = "GL_State"

\* C10: two Draw calls with the same elapsed time write identical model,
\* view and projection matrices.
C10_SameTimeSameMatrices ==
    \A i \in DOMAIN draws : \A j \in DOMAIN draws :
        draws[i].time = draws[j].time =>
            /\ MatrixWritten(draws[i], "model") = MatrixWritten(draws[j], "model")
            /\ MatrixWritten(draws[i], "view") = MatrixWritten(draws[j], "view")
            /\ MatrixWritten(draws[i], "projection")
                    = MatrixWritten(draws[j], "projection")

C10_Witness ==
    /\ Len(draws) >= 2
    /\ draws[1].time = draws[2].time
    /\ draws[1].time > 0

\* C11: with vertex stride 5 floats the geometry buffer configures and
\* enables exactly two attributes: position with 3 components at byte offset
\* 0 and texture coordinate with 2 components at byte offset 3*sizeof(float),
\* both with byte stride 5*sizeof(float).
C11_ExactlyPositionAndTexcoord ==
    \A v \in DOMAIN vaos :
        /\ DOMAIN vaos[v].attribs = {"POSITION", "TEXTURE"}
        /\ vaos[v].attribs["POSITION"] =
              [size |-> 3, stride |-> 5 * SizeofFloat, offset |-> 0,
               enabled |-> TRUE]
        /\ vaos[v].attribs["TEXTURE"] =
              [size |-> 2, stride |-> 5 * SizeofFloat,
               offset |-> 3 * SizeofFloat, enabled |-> TRUE]


\* C12: when both shaders compile and link and both images decode, the
\* construction completes, and the Ready state holds a program handle, a
\* vertex-array handle and two texture handles that are non-zero names of
\* live objects; the two texture handles differ.
C12_ReadyHandlesValid ==
    /\ ( /\ Len(stbiLog) = 2
         /\ stbiLog[1].img # NULL
         /\ stbiLog[2].img # NULL
         /\ pc # "returned" ) => gl = "GL_State"
    /\ gl = "GL_State" =>
        /\ ProgramID # 0
        /\ ProgramID \in DOMAIN programs
        /\ programs[ProgramID].linkStatus
        /\ VAOId # 0
        /\ VAOId \in DOMAIN vaos
        /\ TexID(shelfTexture_) # 0
        /\ TexID(duckyTexture_) # 0
        /\ TexID(shelfTexture_) \in DOMAIN textures
        /\ TexID(duckyTexture_) \in DOMAIN textures
        /\ TexID(shelfTexture_) # TexID(duckyTexture_)

C12_Witness ==
    /\ gl = "GL_State"
    /\ pc = "loop"
    /\ frames = 0
    /\ \A s \in DOMAIN shaders : shaders[s].compileStatus
    /\ TexID(shelfTexture_) # TexID(duckyTexture_)


\* C13: on a successful link both input shader objects are deleted, and the
\* deletion comes after the link and after the query of the link status;
\* no shader is deleted before a program was linked.
C13_ShadersReleasedAfterLinkCheck ==
    /\ \A p \in DOMAIN programs :
        programs[p].linkStatus =>
            /\ Cardinality(programs[p].attached) = 2
            /\ \A s \in programs[p].attached :
                /\ shaders[s].deleted
                /\ 0 < FirstCall("glLinkProgram", p)
                /\ FirstCall("glLinkProgram", p) < FirstCall("glGetProgramiv", p)
                /\ FirstCall("glGetProgramiv", p) < FirstCall("glDeleteShader", s)
    /\ \A s \in DOMAIN shaders :
        shaders[s].deleted =>
            \E p \in DOMAIN programs :
                programs[p].linkStatus /\ s \in programs[p].attached
    /\ \A i \in DOMAIN glLog :
        glLog[i].call = "glDeleteShader" =>
            (0 < FirstNamed("glGetProgramiv") /\ FirstNamed("glGetProgramiv") < i)

C13_Witness ==
    \E p \in DOMAIN programs :
        /\ programs[p].linkStatus
        /\ \A s \in programs[p].attached : shaders[s].deleted
        /\ CountNamed("glDeleteShader") = 2


\* C14: once main has returned and the Ready GL_State has been destroyed,
\* every GPU object it owned (program, vertex array, buffers, both textures)
\* has been released.
C14_TeardownReleasesHandles ==
    pc = "returned" =>
        /\ \A p \in DOMAIN programs : programs[p].deleted
        /\ \A v \in DOMAIN vaos : vaos[v].deleted
        /\ \A b \in DOMAIN buffers : buffers[b].deleted
        /\ \A t \in DOMAIN textures : textures[t].deleted


\* C15: the geometry buffer creates exactly one vertex-array object and one
\* vertex buffer, and an index buffer if and only if the index data set is
\* non-empty; with the empty indices_ no index-buffer name is ever generated.
IndexBuffers ==
    {b \in DOMAIN buffers : buffers[b].target = "GL_ELEMENT_ARRAY_BUFFER"}
VertexBuffers ==
    {b \in DOMAIN buffers : buffers[b].target = "GL_ARRAY_BUFFER"}

C15_IndexBufferIffIndices ==
    /\ Cardinality(DOMAIN vaos) <= 1
    /\ DOMAIN vaos # {} =>
        /\ Cardinality(VertexBuffers) = 1
        /\ CountNamed("glGenVertexArrays") = 1
        /\ (IndexBuffers # {}) <=> (IndicesSize # 0)
        /\ Cardinality(IndexBuffers) <= 1
        /\ CountNamed("glGenBuffers") = 1 + Cardinality(IndexBuffers)
        /\ \A v \in DOMAIN vaos :
            (vaos[v].elementBuffer # NULL) <=> (IndicesSize # 0)
    /\ DOMAIN vaos = {} => DOMAIN buffers = {}
    /\ (~myBuffer_.null) => (myBuffer_.hasEBO <=> (IndicesSize # 0))

C15_Witness ==
    /\ pc = "ShelfTexture"
    /\ ~myBuffer_.null
    /\ Cardinality(DOMAIN vaos) = 1
    /\ Cardinality(DOMAIN buffers) = 1
    /\ IndexBuffers = {}


\* C16: the model matrix a Draw writes is a rotation about the axis
\* (0.5, 1.0, 0.0) by 50 degrees times the elapsed seconds of that Draw.
C16_ModelRotatesWithTime ==
    \A i \in DOMAIN draws :
        LET m == MatrixWritten(draws[i], "model")
        IN  /\ m.op = "rotate"
            /\ m.angleDeg = 50 * draws[i].time
            /\ <<2 * m.axis[1], 2 * m.axis[2], 2 * m.axis[3]>> = <<1, 2, 0>>

\* C17: the aspect ratio of the projection a Draw writes is the ratio
\* WINDOW_WIDTH / WINDOW_HEIGHT (1133/755), not the truncated quotient.
C17_AspectIsExactRatio ==
    \A i \in DOMAIN draws :
        MatrixWritten(draws[i], "projection").aspect * WINDOW_HEIGHT = WINDOW_WIDTH


\* The binding state of the context after a sequence of calls, starting
\* from a context with nothing bound: active program, active texture unit,
\* texture bound to each unit, bound vertex array, integer uniforms written,
\* and whether a uniform was written while no program was active.
NothingBound ==
    [program |-> NULL, unit |-> 0, tex |-> [u \in 0..1 |-> NULL], vao |-> NULL,
     samplers |-> <<>>, orphan |-> FALSE]

Bind(st, c) ==
    CASE c.call = "glUseProgram" -> [st EXCEPT !.program = c.args[1]]
      [] c.call = "glActiveTexture" -> [st EXCEPT !.unit = c.args[1]]
      [] c.call = "glBindTexture" -> [st EXCEPT !.tex[st.unit] = c.args[2]]
      [] c.call = "glBindVertexArray" -> [st EXCEPT !.vao = c.args[1]]
      [] c.call = "glUniform1i" ->
            [st EXCEPT !.samplers = Put(@, c.args[1], c.args[2]),
                       !.orphan = @ \/ st.program = NULL]
      [] c.call = "glUniformMatrix4fv" ->
            [st EXCEPT !.orphan = @ \/ st.program = NULL]
      [] OTHER -> st

RECURSIVE BindingAfter(_, _)
BindingAfter(calls, k) ==
    IF k = 0 THEN NothingBound ELSE Bind(BindingAfter(calls, k - 1), calls[k])

\* C18: in every Draw, when the draw command is issued, the owned program is
\* active and was activated before any uniform write of that Draw, unit 0
\* has the shelf texture and unit 1 the ducky texture bound, the samplers
\* texture1 and texture2 hold 0 and 1, and the geometry's vertex array is
\* bound.
C18_BindingsAtDrawCommand ==
    pc \in {"loop", "poll", "render"} =>
        \A i \in DOMAIN draws :
            LET calls == draws[i].calls
                st == BindingAfter(calls, Len(calls) - 1)
            IN  /\ LastCall(draws[i]).call \in {"glDrawElements", "glDrawArrays"}
                /\ ProgramID # NULL
                /\ st.program = ProgramID
                /\ ~st.orphan
                /\ st.tex[0] = TexID(shelfTexture_)
                /\ st.tex[1] = TexID(duckyTexture_)
                /\ st.tex[0] # st.tex[1]
                /\ DOMAIN st.samplers = {"texture1", "texture2"}
                /\ st.samplers["texture1"] = 0
                /\ st.samplers["texture2"] = 1
                /\ st.vao = VAOId
                /\ VAOId # NULL

C18_Witness ==
    /\ pc = "loop"
    /\ window.open
    /\ Len(draws) = 1
    /\ BindingAfter(draws[1].calls, Len(draws[1].calls) - 1).tex[1]
            = TexID(duckyTexture_)

\* The calls that only bind existing objects, write uniforms or draw.
BindingCalls ==
    {"glUseProgram", "glActiveTexture", "glBindTexture", "glGetUniformLocation",
     "glUniform1i", "glUniformMatrix4fv", "glBindVertexArray", "glDrawElements",
     "glDrawArrays"}

\* C19: a Draw creates and deletes no GPU object and leaves every owned
\* handle as it was: the step that renders a frame changes no object table
\* and no member of the GL_State, and issues only binding, uniform and draw
\* calls.
C19_DrawAllocatesNothing ==
    [][pc = "render" =>
        /\ objectVars' = objectVars
        /\ memberVars' = memberVars
        /\ heap' = heap
        /\ Len(draws') = Len(draws) + 1
        /\ \A k \in DOMAIN draws'[Len(draws')].calls :
                draws'[Len(draws')].calls[k].call \in BindingCalls]_vars

C19_Witness ==
    /\ pc = "loop"
    /\ Len(draws) = 2
    /\ Cardinality(DOMAIN textures) = 2
    /\ Cardinality(DOMAIN programs) = 1
    /\ draws[1].calls[1].args[1] = draws[2].calls[1].args[1]


\* The live Texture members that hold the pixel buffer a.
Owners(a) ==
    (IF (~shelfTexture_.null) /\ shelfTexture_.img_ = a THEN 1 ELSE 0)
    + (IF (~duckyTexture_.null) /\ duckyTexture_.img_ = a THEN 1 ELSE 0)

\* C20: a Texture holds a non-null pixel buffer exactly when its decode
\* succeeded; a buffer has at most one owner (it is never copied); it is
\* freed exactly once, when its Texture is destroyed, and never more; a
\* failed decode allocates no buffer and frees none.
C20_PixelBufferFreedOnce ==
    /\ \A a \in DOMAIN heap :
        /\ a # NULL
        /\ heap[a] <= 1
        /\ Owners(a) <= 1
        /\ (heap[a] = 0) <=> (Owners(a) = 1)
    /\ (~shelfTexture_.null) => shelfTexture_.img_ \in DOMAIN heap
    /\ (~duckyTexture_.null) => duckyTexture_.img_ \in DOMAIN heap
    /\ Cardinality(DOMAIN heap)
         = Cardinality({i \in DOMAIN stbiLog : stbiLog[i].img # NULL})
    /\ \A i \in DOMAIN stbiLog :
        stbiLog[i].img # NULL => stbiLog[i].img \in DOMAIN heap

C20_Witness ==
    /\ pc = "returned"
    /\ Cardinality(DOMAIN heap) = 2
    /\ \A a \in DOMAIN heap : heap[a] = 1
    /\ shelfTexture_.null
    /\ duckyTexture_.null


\* C21: both textures of a GL_State are decoded under the same setting of
\* stb_image's flip-on-load flag: the flag has the same value at the first
\* stbi_load as at the second.
C21_SameFlipForBothTextures ==
    Len(stbiLog) = 2 => stbiLog[1].flipped = stbiLog[2].flipped

\* C22: once the window has been closed, by a Closed event or the Escape
\* key, no further clear, Draw or display is issued: every frame is
\* rendered while the window is open.
C22_NoFrameAfterClose ==
    \A i \in DOMAIN draws : draws[i].windowOpen

\* C23: when the construction of GL_State has failed and the failure has
\* reached the caller, every GPU object the earlier steps created (shader
\* objects, program, vertex array, vertex buffer, first texture) has been
\* released.
C23_FailedConstructionReleasesAll ==
    (exc.type # "none" /\ pc # "thrown") =>
        /\ \A s \in DOMAIN shaders : shaders[s].deleted
        /\ \A p \in DOMAIN programs : programs[p].deleted
        /\ \A v \in DOMAIN vaos : vaos[v].deleted
        /\ \A b \in DOMAIN buffers : buffers[b].deleted
        /\ \A t \in DOMAIN textures : textures[t].deleted

====
